---- MODULE Spec2Model ----
(***************************************************************************)
(* Wall-collision merging of UnfairAdvantage (src/src/systems.rs,          *)
(* spawn_wall_collision).                                                  *)
(*                                                                         *)
(* Two specifications share the operators that model the algorithm:        *)
(*   Spec      one pass of the merging pipeline over one level, stepped    *)
(*             row by row (row-plate merging, then cross-row rectangle     *)
(*             merging), and re-run on the same input;                     *)
(*   TickSpec  the system run once per tick over the entities of the       *)
(*             world: wall tiles, their chunks, the levels, the colliders. *)
(***************************************************************************)
EXTENDS Integers, Sequences, FiniteSets, Bags, TLC

VARIABLES
    \* ---- one pass over one level (Spec) ----
    width,          \* c_wid of the level's first layer
    height,         \* c_hei of the level's first layer
    level_walls,    \* HashSet<GridCoords> of the level, as a set of <<x, y>>
    pc,             \* position in the pass: "plates", "rects", "done"; "idle" in TickSpec
    y,              \* index of the next row of the running loop
    plate_start,    \* Option<i32> left by the column loop of the last scanned row
    plate_stack,    \* Vec<Vec<Plate>>
    previous_rects, \* HashMap<Plate, Rect<i32>>
    wall_rects,     \* Vec<Rect<i32>>
    rerun,          \* TRUE once the pipeline has been run before on this input
    prior_rects,    \* wall_rects of the run before this one
    \* ---- the world across ticks (TickSpec) ----
    status,         \* wall tile -> "absent" | "added" | "seen"
    chunk_parent,   \* chunk -> the entity its Parent component names, or NoParent
    loaded,         \* level -> whether Assets<LdtkLevel> holds its asset
    colliders,      \* bag of the collider entities spawned so far
    skipped,        \* wall tiles a run found with no level behind their chunk
    halted          \* TRUE once an expect() has panicked

passVars == <<width, height, level_walls, pc, y, plate_start, plate_stack,
              previous_rects, wall_rects, rerun, prior_rects>>
tickVars == <<status, chunk_parent, loaded, colliders, skipped, halted>>
vars == <<passVars, tickVars>>

\* Bound of the explored level grids: the number of cells of a grid, and the
\* length of a side of an empty grid (width or height 0).
MaxCells == 9

----------------------------------------------------------------------------
\* Option<i32>: None is the empty set, Some(v) the singleton {v}.
None == {}
Some(v) == {v}
Unwrap(o) == CHOOSE v \in o : TRUE

Plate(l, r) == [left |-> l, right |-> r]

Rect(l, r, b, t) == [left |-> l, right |-> r, bottom |-> b, top |-> t]

EmptyMap == [p \in {} |-> {}]

\* 0..width + 1 of the column loop: one column past the last real one.
ColumnsNoSentinel(w) == 0 .. (w - 1)
Columns(w) == 0 .. w

\* 0..height of the row loop.
Rows(h) == 0 .. (h - 1)

\* One iteration of the column loop: the match on
\* (plate_start, level_walls.contains(&GridCoords { x, y })).
\* st is [row_plates, plate_start].
ScanStepOffByOne(st, x, row, walls) ==
    LET isWall == <<x, row>> \in walls IN
    IF st.plate_start # None /\ ~isWall
      THEN [row_plates  |-> Append(st.row_plates, Plate(Unwrap(st.plate_start), x)),
            plate_start |-> None]
    ELSE IF st.plate_start = None /\ isWall
      THEN [st EXCEPT !.plate_start = Some(x)]
    ELSE st
ScanStep(st, x, row, walls) ==
    LET isWall == <<x, row>> \in walls IN
    IF st.plate_start # None /\ ~isWall
      THEN [row_plates  |-> Append(st.row_plates, Plate(Unwrap(st.plate_start), x - 1)),
            plate_start |-> None]
    ELSE IF st.plate_start = None /\ isWall
      THEN [st EXCEPT !.plate_start = Some(x)]
    ELSE st

\* The column loop from column x on, over the columns cols.
RECURSIVE ScanFrom(_, _, _, _, _)
ScanFrom(st, x, cols, row, walls) ==
    IF x \notin cols THEN st
    ELSE ScanFrom(ScanStep(st, x, row, walls), x + 1, cols, row, walls)

\* The body of `for y in 0..height`: a fresh row_plates and plate_start, then
\* the column loop.  The result keeps what the loop leaves in plate_start.
ScanRow(walls, w, row) ==
    ScanFrom([row_plates |-> <<>>, plate_start |-> None], 0, Columns(w), row, walls)

\* previous_rects.remove(&plate): the map without the key.
KeepPrevious(prev, plate) == prev
RemovePrevious(prev, plate) ==
    [p \in (DOMAIN prev) \ {plate} |-> prev[p]]

\* Rect { top: previous_rect.top + 1, ..previous_rect }
ExtendRectNoGrowth(previous_rect) == previous_rect
ExtendRect(previous_rect) == [previous_rect EXCEPT !.top = previous_rect.top + 1]

\* Rect { bottom: y, top: y, left: plate.left, right: plate.right }
NewRectFromZero(plate, row) == Rect(plate.left, plate.right, 0, row)
NewRect(plate, row) == Rect(plate.left, plate.right, row, row)

\* current_rects.insert(key, value)
Insert(map, key, value) ==
    [p \in (DOMAIN map) \cup {key} |-> IF p = key THEN value ELSE map[p]]

\* `for plate in row`: st is [current, previous]; plate i of the row either
\* extends the rectangle removed from previous_rects or starts a new one.
RECURSIVE MergePlates(_, _, _, _)
MergePlates(st, row_plates, i, row) ==
    IF i > Len(row_plates) THEN st
    ELSE LET plate == row_plates[i] IN
         IF plate \in DOMAIN st.previous
           THEN MergePlates(
                  [current  |-> Insert(st.current, plate, ExtendRect(st.previous[plate])),
                   previous |-> RemovePrevious(st.previous, plate)],
                  row_plates, i + 1, row)
           ELSE MergePlates(
                  [current  |-> Insert(st.current, plate, NewRect(plate, row)),
                   previous |-> st.previous],
                  row_plates, i + 1, row)

MergeRow(prev, row_plates, row) ==
    MergePlates([current |-> EmptyMap, previous |-> prev], row_plates, 1, row)

\* plate_stack.push(Vec::new()): the extra empty row.
NoSentinelRow(stack) == stack
PushSentinelRow(stack) == Append(stack, <<>>)

\* previous_rects.values().copied().collect(): the values in some iteration
\* order of the hash map; every order of the keys is possible.
Orders(map) ==
    LET n == Cardinality(DOMAIN map) IN
    {[i \in 1..n |-> map[k[i]]] :
        k \in {f \in [1..n -> DOMAIN map] : \A a, b \in 1..n : a # b => f[a] # f[b]}}

\* wall_rects.append(&mut values)
AppendFirstOnly(rects, values) ==
    rects \o (IF values = <<>> THEN <<>> ELSE <<Head(values)>>)
AppendRects(rects, values) == rects \o values

----------------------------------------------------------------------------
\* The grids explored: every level size of at most MaxCells cells, every set
\* of wall cells inside the grid.
GridCells(w, h) == (0 .. (w - 1)) \X (0 .. (h - 1))

GridSizes == {s \in (0 .. MaxCells) \X (0 .. MaxCells) : s[1] * s[2] <= MaxCells}

TickIdle ==
    /\ status = <<>>
    /\ chunk_parent = <<>>
    /\ loaded = <<>>
    /\ colliders = EmptyBag
    /\ skipped = {}
    /\ halted = FALSE

Init ==
    /\ \E s \in GridSizes : width = s[1] /\ height = s[2]
    /\ level_walls \in SUBSET GridCells(width, height)
    /\ pc = "plates"
    /\ y = 0
    /\ plate_start = None
    /\ plate_stack = <<>>
    /\ previous_rects = EmptyMap
    /\ wall_rects = <<>>
    /\ rerun = FALSE
    /\ prior_rects = <<>>
    /\ TickIdle

\* One iteration of `for y in 0..height`: scan a row, push its plates.
PlateRow ==
    /\ pc = "plates"
    /\ y \in Rows(height)
    /\ LET st == ScanRow(level_walls, width, y) IN
         /\ plate_stack' = Append(plate_stack, st.row_plates)
         /\ plate_start' = st.plate_start
    /\ y' = y + 1
    /\ UNCHANGED <<width, height, level_walls, pc, previous_rects, wall_rects,
                   rerun, prior_rects, tickVars>>

\* The row loop is over: the declarations of wall_rects and previous_rects
\* and the push of the extra empty row.
StartRects ==
    /\ pc = "plates"
    /\ y \notin Rows(height)
    /\ plate_stack' = PushSentinelRow(plate_stack)
    /\ wall_rects' = <<>>
    /\ previous_rects' = EmptyMap
    /\ y' = 0
    /\ pc' = "rects"
    /\ UNCHANGED <<width, height, level_walls, plate_start, rerun, prior_rects,
                   tickVars>>

\* One iteration of `for (y, row) in plate_stack.iter().enumerate()`.
RectRow ==
    /\ pc = "rects"
    /\ y < Len(plate_stack)
    /\ LET st == MergeRow(previous_rects, plate_stack[y + 1], y) IN
         /\ \E values \in Orders(st.previous) :
                wall_rects' = AppendRects(wall_rects, values)
         /\ previous_rects' = st.current
    /\ y' = y + 1
    /\ UNCHANGED <<width, height, level_walls, pc, plate_start, plate_stack,
                   rerun, prior_rects, tickVars>>

\* The loop over plate_stack is over: wall_rects is the result of the pass.
FinishRects ==
    /\ pc = "rects"
    /\ y >= Len(plate_stack)
    /\ pc' = "done"
    /\ UNCHANGED <<width, height, level_walls, y, plate_start, plate_stack,
                   previous_rects, wall_rects, rerun, prior_rects, tickVars>>

\* The pipeline is run again on the same level and the same walls.
Rerun ==
    /\ pc = "done"
    /\ prior_rects' = wall_rects
    /\ rerun' = TRUE
    /\ pc' = "plates"
    /\ y' = 0
    /\ plate_start' = None
    /\ plate_stack' = <<>>
    /\ previous_rects' = EmptyMap
    /\ wall_rects' = <<>>
    /\ UNCHANGED <<width, height, level_walls, tickVars>>

Next == PlateRow \/ StartRects \/ RectRow \/ FinishRects \/ Rerun

Spec == Init /\ [][Next]_vars

----------------------------------------------------------------------------
\* The system over the entities of the world (TickSpec).

\* The whole pipeline on one level's walls: `for y in 0..height`, the push of
\* the extra row and the loop over plate_stack, as one function.
RECURSIVE PlateStackFrom(_, _, _, _)
PlateStackFrom(stack, row, walls, layer) ==
    IF row \notin Rows(layer.c_hei) THEN stack
    ELSE PlateStackFrom(Append(stack, ScanRow(walls, layer.c_wid, row).row_plates),
                        row + 1, walls, layer)

\* The iteration order of previous_rects does not reach the colliders, which
\* are spawned as unordered entities: one order stands for all here.
RECURSIVE RectsFrom(_, _, _, _)
RectsFrom(rects, prev, stack, row) ==
    IF row >= Len(stack) THEN rects
    ELSE LET st == MergeRow(prev, stack[row + 1], row) IN
         RectsFrom(AppendRects(rects, CHOOSE values \in Orders(st.previous) : TRUE),
                   st.current, stack, row + 1)

WallRects(walls, layer) ==
    RectsFrom(<<>>, EmptyMap, PushSentinelRow(PlateStackFrom(<<>>, 0, walls, layer)), 0)

\* level_query: the level entities.
Levels == {"L1", "L2"}

\* The first LayerInstance of each level asset: c_wid, c_hei, grid_size.
LayerInstance(level) ==
    IF level = "L1" THEN [c_wid |-> 2, c_hei |-> 2, grid_size |-> 16]
                    ELSE [c_wid |-> 2, c_hei |-> 1, grid_size |-> 8]

\* The tilemap chunks, each spawned as a child of one level.
Chunks == {"K1", "K2", "K3"}

ChunkLevel(chunk) == IF chunk = "K3" THEN "L2" ELSE "L1"

\* A chunk entity without a Parent component.
NoParent == "NoParent"

\* The LdtkWorldBundle entity: an entity with no Handle<LdtkLevel>, which
\* level_query does not match.
World == "World"

\* The int-grid tiles registered as WallBundle: (GridCoords, Parent(chunk)),
\* one per cell.  K1 and K2 hold the two rows of L1, K3 the row of L2.
Tiles ==
    {[chunk |-> "K1", x |-> x, y |-> 0] : x \in 0 .. 1}
      \cup {[chunk |-> "K2", x |-> x, y |-> 1] : x \in 0 .. 1}
      \cup {[chunk |-> "K3", x |-> x, y |-> 0] : x \in 0 .. 1}

\* Query<(&GridCoords, &Parent), Added<Wall>>: the tiles whose Wall component
\* was added since the system last ran.
wall_query_unfiltered == {t \in Tiles : status[t] \in {"added", "seen"}}
wall_query == {t \in Tiles : status[t] = "added"}

\* parent_query.get(parent): Ok(&Parent(level_entity)) or Err.
parent_query_get_spawn_parent(chunk) == Some(ChunkLevel(chunk))
parent_query_get(chunk) ==
    IF chunk_parent[chunk] = NoParent THEN None ELSE Some(chunk_parent[chunk])

\* level_to_wall_locations after wall_query.for_each.
level_to_wall_locations ==
    LET found == {t \in wall_query : parent_query_get(t.chunk) # None}
        owner(t) == Unwrap(parent_query_get(t.chunk))
    IN  [e \in {owner(t) : t \in found} |->
            {<<t.x, t.y>> : t \in {u \in found : owner(u) = e}}]

\* The levels whose body of level_query.for_each runs: none when wall_query
\* is empty, else those with an entry in level_to_wall_locations.
Processed ==
    IF wall_query = {} THEN {}
    ELSE {l \in Levels : l \in DOMAIN level_to_wall_locations}

\* The entity spawned for one rectangle.  half_extends and translation hold
\* twice the f32 of the code (the division by 2. is left out), so that they
\* stay integers; the casts to f32 are exact at these sizes.
ColliderNoPlusOne(wall_rect, grid_size, level_entity) ==
    [half_extends |-> <<(wall_rect.right - wall_rect.left + 1) * grid_size,
                        (wall_rect.top - wall_rect.bottom + 1) * grid_size>>,
     translation  |-> <<(wall_rect.left + wall_rect.right) * grid_size,
                        (wall_rect.bottom + wall_rect.top) * grid_size>>,
     parent       |-> level_entity]
Collider(wall_rect, grid_size, level_entity) ==
    [half_extends |-> <<(wall_rect.right - wall_rect.left + 1) * grid_size,
                        (wall_rect.top - wall_rect.bottom + 1) * grid_size>>,
     translation  |-> <<(wall_rect.left + wall_rect.right + 1) * grid_size,
                        (wall_rect.bottom + wall_rect.top + 1) * grid_size>>,
     parent       |-> level_entity]

RECURSIVE SeqToBag(_)
SeqToBag(seq) ==
    IF seq = <<>> THEN EmptyBag ELSE SetToBag({Head(seq)}) (+) SeqToBag(Tail(seq))

\* `for wall_rect in wall_rects`: the colliders spawned for one level.
LevelColliders(level) ==
    LET layer == LayerInstance(level)
        rects == WallRects(level_to_wall_locations[level], layer)
    IN  SeqToBag([i \in DOMAIN rects |-> Collider(rects[i], layer.grid_size, level)])

RECURSIVE SpawnedFor(_)
SpawnedFor(levels) ==
    IF levels = {} THEN EmptyBag
    ELSE LET l == CHOOSE l \in levels : TRUE IN
         LevelColliders(l) (+) SpawnedFor(levels \ {l})

\* levels.get(level_handle).expect("Level should be loaded by this point")
Panics == \E l \in Processed : ~loaded[l]

PassIdle ==
    /\ width = 0
    /\ height = 0
    /\ level_walls = {}
    /\ pc = "idle"
    /\ y = 0
    /\ plate_start = None
    /\ plate_stack = <<>>
    /\ previous_rects = EmptyMap
    /\ wall_rects = <<>>
    /\ rerun = FALSE
    /\ prior_rects = <<>>

TickInit ==
    /\ status = [t \in Tiles |-> "absent"]
    /\ chunk_parent = [c \in Chunks |-> ChunkLevel(c)]
    /\ loaded = [l \in Levels |-> FALSE]
    /\ colliders = EmptyBag
    /\ skipped = {}
    /\ halted = FALSE
    /\ PassIdle

\* The level plugin spawns a batch of int-grid tiles with the Wall component.
SpawnWalls ==
    /\ ~halted
    /\ \E batch \in (SUBSET {t \in Tiles : status[t] = "absent"}) \ {{}} :
          status' = [t \in Tiles |-> IF t \in batch THEN "added" ELSE status[t]]
    /\ UNCHANGED <<chunk_parent, loaded, colliders, skipped, halted, passVars>>

\* A chunk is taken off its level (it is being re-parented): its Parent
\* component is removed, or names an entity that is no level.
Detach ==
    /\ ~halted
    /\ \E c \in Chunks, p \in {NoParent, World} :
          /\ chunk_parent[c] = ChunkLevel(c)
          /\ chunk_parent' = [chunk_parent EXCEPT ![c] = p]
    /\ UNCHANGED <<status, loaded, colliders, skipped, halted, passVars>>

\* A chunk is put back under its level.
Attach ==
    /\ ~halted
    /\ \E c \in Chunks :
          /\ chunk_parent[c] # ChunkLevel(c)
          /\ chunk_parent' = [chunk_parent EXCEPT ![c] = ChunkLevel(c)]
    /\ UNCHANGED <<status, loaded, colliders, skipped, halted, passVars>>

\* The asset of a level finishes loading.
LoadLevel ==
    /\ ~halted
    /\ \E l \in Levels :
          /\ ~loaded[l]
          /\ loaded' = [loaded EXCEPT ![l] = TRUE]
    /\ UNCHANGED <<status, chunk_parent, colliders, skipped, halted, passVars>>

\* One run of spawn_wall_collision.  A panic unwinds before the queued
\* commands are applied: nothing is spawned and the run is the program's last.
Tick ==
    /\ ~halted
    /\ IF Panics
         THEN /\ halted' = TRUE
              /\ UNCHANGED <<status, chunk_parent, loaded, colliders, skipped, passVars>>
         ELSE /\ colliders' = colliders (+) SpawnedFor(Processed)
              /\ status' = [t \in Tiles |->
                               IF status[t] = "added" THEN "seen" ELSE status[t]]
              /\ skipped' = skipped \cup
                               {t \in Tiles : /\ status[t] = "added"
                                              /\ chunk_parent[t.chunk] \notin Levels}
              /\ UNCHANGED <<chunk_parent, loaded, halted, passVars>>

TickNext == SpawnWalls \/ Detach \/ Attach \/ LoadLevel \/ Tick

TickSpec == TickInit /\ [][TickNext]_vars

----------------------------------------------------------------------------
\* Properties of one pass (checked under Spec).

Done == pc = "done"

\* The grid cells of a rectangle: {(x, y) : left <= x <= right, bottom <= y <= top}.
Cells(r) == (r.left .. r.right) \X (r.bottom .. r.top)

Emitted == {wall_rects[i] : i \in DOMAIN wall_rects}

IsWall(x, row) == <<x, row>> \in level_walls

\* The plates of row `row` as plate_stack holds them (rows are 0-based).
RowPlates(row) ==
    IF row + 1 \in DOMAIN plate_stack
      THEN {plate_stack[row + 1][i] : i \in DOMAIN plate_stack[row + 1]}
      ELSE {}

\* C1 (Coverage): when the pass is over, the union of the cell sets of the
\* emitted rectangles is exactly the set of wall cells: no wall cell is left
\* out and no emitted rectangle holds a non-wall cell.
C1_Coverage ==
    Done => UNION {Cells(r) : r \in Emitted} = level_walls

C1_Witness ==
    /\ Done
    /\ Len(wall_rects) >= 2
    /\ \E r \in Emitted : r.right > r.left /\ r.top > r.bottom
    /\ level_walls # GridCells(width, height)

\* C2 (Disjointness): no two entries of the output list share a grid cell, so
\* every wall cell lies in exactly one emitted rectangle and no rectangle is
\* emitted twice.
C2_Disjoint ==
    Done =>
      /\ \A i, j \in DOMAIN wall_rects :
            i # j => Cells(wall_rects[i]) \cap Cells(wall_rects[j]) = {}
      /\ \A c \in level_walls :
            Cardinality({i \in DOMAIN wall_rects : c \in Cells(wall_rects[i])}) = 1

C2_Witness ==
    /\ Done
    /\ \E i, j \in DOMAIN wall_rects :
          /\ i # j
          /\ wall_rects[i].top > wall_rects[i].bottom
          /\ wall_rects[j].bottom = wall_rects[i].top + 1
          /\ wall_rects[j].left <= wall_rects[i].right
          /\ wall_rects[i].left <= wall_rects[j].right

\* Growing a rectangle by one column or one row.
BlockedLeft(r) ==
    r.left - 1 < 0 \/ \E row \in r.bottom .. r.top : ~IsWall(r.left - 1, row)
BlockedRight(r) ==
    r.right + 1 >= width \/ \E row \in r.bottom .. r.top : ~IsWall(r.right + 1, row)
BlockedDown(r) ==
    r.bottom - 1 < 0 \/ \E x \in r.left .. r.right : ~IsWall(x, r.bottom - 1)
BlockedUp(r) ==
    r.top + 1 >= height \/ \E x \in r.left .. r.right : ~IsWall(x, r.top + 1)

\* The wall run of row `row` through the columns of r is wider than r.
WiderRun(r, row) == IsWall(r.left - 1, row) \/ IsWall(r.right + 1, row)

\* C3 as stated (Maximality in every direction): growing an emitted rectangle
\* by one column to the left or right, or by one row up or down, always takes
\* in a non-wall cell or crosses the level boundary.
C3_Original ==
    Done => \A r \in Emitted :
              BlockedLeft(r) /\ BlockedRight(r) /\ BlockedDown(r) /\ BlockedUp(r)

\* C3 as amended: an emitted rectangle cannot grow by a column to the left or
\* right without taking in a non-wall cell or crossing the level boundary; it
\* cannot grow by a row up or down without crossing the level boundary, taking
\* in a non-wall cell, or entering a row whose wall run through its columns is
\* wider than the rectangle.
C3_Maximal ==
    Done => \A r \in Emitted :
              /\ BlockedLeft(r)
              /\ BlockedRight(r)
              /\ BlockedDown(r) \/ WiderRun(r, r.bottom - 1)
              /\ BlockedUp(r) \/ WiderRun(r, r.top + 1)

C3_Witness ==
    /\ Done
    /\ \E r \in Emitted :
          /\ ~BlockedUp(r)
          /\ WiderRun(r, r.top + 1)
          /\ r.top > r.bottom

\* C4 (Horizontal maximality): every row slice of an emitted rectangle is one
\* plate of that row: its cells are walls and the cells next to its two ends
\* are not walls (or lie outside the level); the plates of a row are pairwise
\* disjoint with at least one non-wall column between two of them.
C4_RowSlices ==
    Done =>
      /\ \A r \in Emitted : \A row \in r.bottom .. r.top :
            /\ Plate(r.left, r.right) \in RowPlates(row)
            /\ \A x \in r.left .. r.right : IsWall(x, row)
            /\ r.left = 0 \/ ~IsWall(r.left - 1, row)
            /\ r.right = width - 1 \/ ~IsWall(r.right + 1, row)
            /\ 0 <= r.left /\ r.right <= width - 1
      /\ \A row \in Rows(height) : \A i, j \in DOMAIN plate_stack[row + 1] :
            i < j =>
              /\ plate_stack[row + 1][i].right + 1 < plate_stack[row + 1][j].left
              /\ \E x \in (plate_stack[row + 1][i].right + 1)
                            .. (plate_stack[row + 1][j].left - 1) : ~IsWall(x, row)

C4_Witness ==
    /\ Done
    /\ \E row \in Rows(height) :
          /\ Len(plate_stack[row + 1]) >= 2
          /\ \E r \in Emitted :
                row \in r.bottom .. r.top /\ r.top > r.bottom /\ r.right = width - 1

\* C5 (Determinism): a run of the pipeline on the input of an earlier run ends
\* with the same rectangles, as many of them, whatever the orders in which the
\* two runs iterated previous_rects; only the order of the list may differ.
C5_SameRects ==
    (Done /\ rerun) =>
      /\ Emitted = {prior_rects[i] : i \in DOMAIN prior_rects}
      /\ Len(wall_rects) = Len(prior_rects)

C5_Witness ==
    /\ Done
    /\ rerun
    /\ wall_rects # prior_rects
    /\ Len(wall_rects) >= 3

\* C6 (Boundary sentinels): the column loop leaves no plate in progress in any
\* row, a run that reaches the last real column is pushed as a plate with
\* right = width - 1, and when the pass is over previous_rects is empty and
\* every wall cell of the bottom row and of the top row lies in an emitted
\* rectangle that starts at row 0, respectively ends at row height - 1.
C6_Sentinels ==
    /\ plate_start = None
    /\ \A row \in Rows(height) :
          (row + 1 \in DOMAIN plate_stack /\ IsWall(width - 1, row)) =>
             \E p \in RowPlates(row) : p.right = width - 1
    /\ Done =>
          /\ previous_rects = EmptyMap
          /\ \A x \in 0 .. (width - 1) :
                /\ IsWall(x, height - 1) =>
                      \E r \in Emitted : r.top = height - 1 /\ x \in r.left .. r.right
                /\ IsWall(x, 0) =>
                      \E r \in Emitted : r.bottom = 0 /\ x \in r.left .. r.right

C6_Witness ==
    /\ Done
    /\ height >= 2
    /\ IsWall(width - 1, height - 1)
    /\ IsWall(width - 1, 0)
    /\ \E r \in Emitted : r.top = height - 1 /\ r.right = width - 1 /\ r.bottom > 0

\* C9 (Maximal vertical runs of identical plates): a rectangle is emitted if
\* and only if its plate is in the plate list of each of its rows, is not in
\* the plate list of the row below its bottom (or bottom = 0) and is not in
\* the plate list of the row above its top (or top = height - 1); plates of
\* differing extents are never merged.
C9_VerticalRuns ==
    Done =>
      \A l \in 0 .. (width - 1), r \in 0 .. (width - 1) :
      \A b \in Rows(height), t \in Rows(height) :
         (Rect(l, r, b, t) \in Emitted) <=>
            /\ l <= r /\ b <= t
            /\ \A row \in b .. t : Plate(l, r) \in RowPlates(row)
            /\ b = 0 \/ Plate(l, r) \notin RowPlates(b - 1)
            /\ t = height - 1 \/ Plate(l, r) \notin RowPlates(t + 1)

C9_Witness ==
    /\ Done
    /\ \E r \in Emitted :
          /\ r.bottom > 0
          /\ r.top < height - 1
          /\ r.top > r.bottom
          /\ \A x \in r.left .. r.right : IsWall(x, r.top + 1) /\ IsWall(x, r.bottom - 1)

----------------------------------------------------------------------------
\* Properties of the system across ticks (checked under TickSpec).

\* The wall tiles a run of the system finds newly added.
NewTiles == {t \in Tiles : status[t] = "added"}

\* The new tiles whose chunk is the child of level l: the WallSet of l.
WallSet(l) == {<<t.x, t.y>> : t \in {u \in NewTiles : chunk_parent[u.chunk] = l}}

\* A step in which the system ran over new tiles and did not panic.
PassRan == NewTiles # {} /\ \A t \in NewTiles : status'[t] = "seen"

\* The colliders a step adds.
Spawned == colliders' (-) colliders

\* The part of a bag of colliders whose parent is level l.
OfLevel(bag, l) == [c \in {d \in BagToSet(bag) : d.parent = l} |-> bag[c]]

\* Collider c, taken in the frame of level l, covers cell (x, row) of l:
\* the square of the cell lies inside translation +- half_extends (all
\* doubled).
Covers(c, l, x, row) ==
    LET gs == LayerInstance(l).grid_size IN
    /\ c.parent = l
    /\ c.translation[1] - c.half_extends[1] <= 2 * x * gs
    /\ 2 * (x + 1) * gs <= c.translation[1] + c.half_extends[1]
    /\ c.translation[2] - c.half_extends[2] <= 2 * row * gs
    /\ 2 * (row + 1) * gs <= c.translation[2] + c.half_extends[2]

\* The number of colliders of tile t's level that cover the cell of t.
Covering(bag, t) ==
    BagCardinality([c \in {d \in BagToSet(bag) :
                              Covers(d, ChunkLevel(t.chunk), t.x, t.y)} |-> bag[c]])

\* C7 (Collider emission): a run spawns, for every level, exactly one collider
\* per rectangle merged from that level's WallSet, with the level as parent,
\* doubled half-extents ((right-left+1)*cellSize, (top-bottom+1)*cellSize)
\* and doubled center ((left+right+1)*cellSize, (bottom+top+1)*cellSize) for
\* the level's own cellSize; it spawns no collider with another parent.
C7_Emission ==
    [][PassRan =>
         /\ \A c \in BagToSet(Spawned) : c.parent \in Levels
         /\ \A l \in Levels :
               LET cs    == LayerInstance(l).grid_size
                   rects == WallRects(WallSet(l), LayerInstance(l))
               IN  /\ BagCardinality(OfLevel(Spawned, l)) = Len(rects)
                   /\ \A i \in DOMAIN rects :
                         LET r == rects[i] IN
                         CopiesIn([half_extends |-> <<(r.right - r.left + 1) * cs,
                                                      (r.top - r.bottom + 1) * cs>>,
                                   translation  |-> <<(r.left + r.right + 1) * cs,
                                                      (r.bottom + r.top + 1) * cs>>,
                                   parent       |-> l],
                                  Spawned) = 1
      ]_vars

C7_Witness ==
    /\ \E c \in BagToSet(colliders) :
          c.parent = "L1" /\ c.half_extends = <<32, 16>> /\ c.translation = <<32, 48>>
    /\ \E c \in BagToSet(colliders) :
          c.parent = "L2" /\ c.half_extends = <<8, 8>> /\ c.translation = <<24, 8>>
    /\ BagCardinality(colliders) >= 4

TakenEnterWallSet ==
    \A t \in NewTiles :
       status'[t] = "seen" =>
          \E l \in Levels : chunk_parent[t.chunk] = l /\ <<t.x, t.y>> \in WallSet(l)

\* C10 as stated (Across ticks): a step with no newly added wall tile spawns
\* no collider and changes none; every wall tile enters the WallSet of exactly
\* one pass, the one that observes it as newly added; so the cell of every
\* resolved tile is covered by exactly one collider of its level.
C10_Original ==
    [][/\ NewTiles = {} => colliders' = colliders
       /\ colliders \sqsubseteq colliders'
       /\ \A t \in Tiles : status[t] = "seen" => status'[t] = "seen"
       /\ (\E t \in NewTiles : status'[t] # "added") => PassRan
       /\ TakenEnterWallSet
       /\ \A t \in Tiles :
             Covering(colliders', t) =
                IF status'[t] = "seen" /\ t \notin skipped' THEN 1 ELSE 0
      ]_vars

\* C10 as amended: a step with no newly added wall tile spawns no collider
\* and changes none; a run takes all the new tiles at once and a tile it has
\* taken is never new again, so a tile enters the WallSet of at most one pass:
\* of exactly one when its chunk is the child of a level in that run, of none
\* when it is not; after any step, the cell of every tile taken while resolved
\* is covered by exactly one collider of its level, and no other cell is
\* covered.
C10_AcrossTicks ==
    [][/\ NewTiles = {} => colliders' = colliders
       /\ colliders \sqsubseteq colliders'
       /\ \A t \in Tiles : status[t] = "seen" => status'[t] = "seen"
       /\ (\E t \in NewTiles : status'[t] # "added") => PassRan
       /\ \A t \in NewTiles :
             status'[t] = "seen" =>
                Cardinality({l \in Levels : <<t.x, t.y>> \in WallSet(l)
                                              /\ chunk_parent[t.chunk] = l})
                   = IF chunk_parent[t.chunk] \in Levels THEN 1 ELSE 0
       /\ \A t \in Tiles :
             Covering(colliders', t) =
                IF status'[t] = "seen" /\ t \notin skipped' THEN 1 ELSE 0
      ]_vars

C10_Witness ==
    /\ \A t \in Tiles : status[t] = "seen"
    /\ Cardinality(skipped) = 1
    /\ BagCardinality(OfLevel(colliders, "L1")) = 3
    /\ BagCardinality(OfLevel(colliders, "L2")) = 2

====
